---- MODULE Spec2Model ----
(***************************************************************************)
(* A model of asmdiff (src/asmdiff/asmdiff.py): the objdump parser         *)
(* (ObjDump), the function finalisation (Function.finish), the            *)
(* disassembly-text normalisation (ObjDump.fixup_disasm), the function    *)
(* matchup (MatchupSet, FunctionMatchupSet) and the differ (fn_equal,     *)
(* fn_diff, asm_diff).                                                    *)
(*                                                                         *)
(* Text is modelled as a sequence of tokens (TLC cannot index a string):  *)
(* a token is a run of characters no regular expression of the program    *)
(* splits (a hexadecimal number, a symbol, a mnemonic, one white-space or *)
(* punctuation character, or a literal of a regular expression).          *)
(***************************************************************************)
EXTENDS Integers, Sequences, FiniteSets, TLC

VARIABLES
    pc,          \* position of the program: which call is running or done
    f,           \* ObjDump.__init__: the lines of the file read so far
    od,          \* ObjDump.__init__: the ObjDump object under construction
    err,         \* the exception that ended ObjDump.__init__, or NoError
    finished,    \* history: raw names of the functions finish() was called on
    fn,          \* Function.finish: the function it is applied to
    pre,         \* Function.finish: the function's instrs before the call
    arg,         \* fixup_disasm: the text it is called with
    disasm,      \* fixup_disasm: its local disasm, returned at the end
    rawfuncname, \* fixup_disasm: the enclosing function's raw name
    dm_in,       \* Demangler: the texts written to c++filt so far
    old,         \* asm_diff: the old model
    new,         \* asm_diff: the new model
    just_sizes,  \* asm_diff: the mode flag
    peers,       \* asm_diff: the FunctionMatchupSet
    counts,      \* asm_diff: added, removed, changed, insertions, deletions
    idx,         \* asm_diff: how many items the running loop has reported
    out          \* Output: the lines written, in order

vars == <<pc, f, od, err, finished, fn, pre, arg, disasm, rawfuncname, dm_in,
          old, new, just_sizes, peers, counts, idx, out>>

-----------------------------------------------------------------------------
(* Bounds *)

MaxLines == 4
MaxInstrs == 4
MaxFns == 2

-----------------------------------------------------------------------------
(* Text *)

None == <<>>
NL == "\n"
TAB == "\t"
SP == " "

\* from_hex on the hexadecimal numbers the inputs use.
HexVal ==
    ("0" :> 0) @@ ("00" :> 0) @@ ("1" :> 1) @@ ("2" :> 2) @@ ("4" :> 4)
    @@ ("10" :> 16) @@ ("11" :> 17) @@ ("12" :> 18)
    @@ ("20" :> 32) @@ ("21" :> 33) @@ ("22" :> 34) @@ ("55" :> 85) @@ ("89" :> 137) @@ ("8b" :> 139)
    @@ ("90" :> 144) @@ ("c3" :> 195) @@ ("d8" :> 216) @@ ("e8" :> 232)
    @@ ("eb" :> 235)

\* [0-9a-f]+
IsHex(t) == t \in DOMAIN HexVal

from_hex(t) == HexVal[t]

\* HexInt.__str__: '0x%x'
HexStr(n) ==
    <<"0x", CHOOSE t \in DOMAIN HexVal : HexVal[t] = n /\ t # "00">>

\* \s
IsWs(t) == t \in {SP, TAB, NL}

\* 0x[0-9a-f]+
IsHexDelta(t) == t \in {"0x4", "0x8"}

Last(s) == s[Len(s)]

Front(s) == SubSeq(s, 1, Len(s) - 1)

Tail_(s, i) == SubSeq(s, i, Len(s))

Max(S) == CHOOSE x \in S : \A y \in S : y <= x

RECURSIVE SumSeq(_)
SumSeq(s) == IF s = <<>> THEN 0 ELSE s[1] + SumSeq(Tail(s))

\* str.rstrip()
RECURSIVE rstrip(_)
rstrip(s) == IF s # <<>> /\ IsWs(Last(s)) THEN rstrip(Front(s)) ELSE s

\* str.split(sep): the pieces of s between the occurrences of token sep.
RECURSIVE split(_, _)
split(s, sep) ==
    IF \E i \in 1..Len(s) : s[i] = sep
    THEN LET i == CHOOSE k \in 1..Len(s) :
                      s[k] = sep /\ \A m \in 1..(k - 1) : s[m] # sep
         IN  <<SubSeq(s, 1, i - 1)>> \o split(Tail_(s, i + 1), sep)
    ELSE <<s>>

\* str.replace(a, b) for a one-token a.
replace(s, a, b) == [i \in 1..Len(s) |-> IF s[i] = a THEN b ELSE s[i]]

-----------------------------------------------------------------------------
(* Demangler *)

\* What c++filt knows: mangled symbol -> demangled text.
Mangled ==
    ( <<"_ZN1A3fooEv">> :> <<"A", "::", "foo()">> )
    @@ ( <<"_ZN1B3fooEv">> :> <<"B", "::", "foo()">> )
    @@ ( <<"_ZN1C3fooEv">> :> <<"C", "::", "foo()">> )
    @@ ( <<"_ZN1AC1Ev">> :> <<"A", "::", "A()">> )
    @@ ( <<"_ZN1AC2Ev">> :> <<"A", "::", "A()">> )
    @@ ( <<"_ZZ4mainENKUlvE_clEv">> :>
           <<"main", "::", "{lambda()#1}", "::", "operator()() const">> )
    @@ ( <<"_Z1fP", "18gimple_statement_d">> :> <<"f(gimple_statement_d*)">> )
    @@ ( <<"_Z1fP", "21gimple_statement_base">> :>
           <<"f(gimple_statement_base*)">> )

\* c++filt on one line of text: every mangled symbol in it is replaced by its
\* demangled form, everything else is passed through.
RECURSIVE cxxfilt(_)
cxxfilt(s) ==
    IF s = <<>> THEN <<>>
    ELSE LET hit == {m \in DOMAIN Mangled :
                        Len(m) <= Len(s) /\ SubSeq(s, 1, Len(m)) = m}
         IN  IF hit # {}
             THEN LET m == CHOOSE x \in hit : \A y \in hit : Len(y) <= Len(x)
                  IN  Mangled[m] \o cxxfilt(Tail_(s, Len(m) + 1))
             ELSE <<s[1]>> \o cxxfilt(Tail(s))

\* Demangler.demangle
demangle(name) == rstrip(cxxfilt(name))

-----------------------------------------------------------------------------
(* Instruction, Function *)

Instruction(offset, bytes_, text) ==
    [offset |-> offset, bytes_ |-> bytes_, disasm |-> text]

\* Instruction.__eq__
InstrEq(a, b) ==
    a.offset = b.offset /\ a.bytes_ = b.bytes_ /\ a.disasm = b.disasm

\* Function.__init__
Function(section, offset, rawname, demangled, leafname) ==
    [section |-> section, offset |-> offset, rawname |-> rawname,
     demangled |-> demangled, leafname |-> leafname,
     instrs |-> <<>>, padding |-> <<>>, size |-> 0]

\* The loop of Function.finish: it looks at the last instruction only, since
\* the break is taken on the first iteration whatever the instruction is.
start_of_padding(instrs) ==
    IF instrs # <<>> /\ Last(instrs).disasm = <<"nop">>
    THEN Len(instrs) - 1
    ELSE Len(instrs)

\* Function.finish
finish(fun) ==
    LET sop == start_of_padding(fun.instrs)
        kept == SubSeq(fun.instrs, 1, sop)
    IN  [fun EXCEPT !.padding = Tail_(fun.instrs, sop + 1),
                    !.instrs = kept,
                    !.size = SumSeq([i \in 1..Len(kept) |-> Len(kept[i].bytes_)])]

-----------------------------------------------------------------------------
(* ObjDump.fixup_disasm *)

\* re.match(r'.*\s([0-9a-f]+ \<.+\+0x[0-9a-f]+\>)', disasm): the pairs
\* <<i, j>> with the white space at i and the closing '>' at j.
SelfRelMatches(d) ==
    {p \in (1..Len(d)) \X (1..Len(d)) :
        /\ p[1] + 7 <= p[2]
        /\ IsWs(d[p[1]])
        /\ IsHex(d[p[1] + 1])
        /\ d[p[1] + 2] = SP
        /\ d[p[1] + 3] = "<"
        /\ d[p[2] - 2] = "+"
        /\ IsHexDelta(d[p[2] - 1])
        /\ d[p[2]] = ">"}

\* The match the greedy '.*' and '.+' select: the last start, then the last end.
Greedy(M) ==
    LET i == Max({p[1] : p \in M})
    IN  <<i, Max({p[2] : p \in {q \in M : q[1] = i}})>>

\* re.match(r'.*\s([0-9a-f]+) (\<.+\>)', disasm)
OtherMatches(d) ==
    {p \in (1..Len(d)) \X (1..Len(d)) :
        /\ p[1] + 5 <= p[2]
        /\ IsWs(d[p[1]])
        /\ IsHex(d[p[1] + 1])
        /\ d[p[1] + 2] = SP
        /\ d[p[1] + 3] = "<"
        /\ d[p[2]] = ">"}

\* The first rewrite of fixup_disasm.
FixupSelf(d, rawname) ==
    IF SelfRelMatches(d) = {} THEN d
    ELSE LET m == Greedy(SelfRelMatches(d))
             g1 == SubSeq(d, m[1] + 4, m[2] - 3)   \* m2.group(1)
             g2 == d[m[2] - 1]                      \* m2.group(2)
         IN  IF g1 = rawname
             THEN SubSeq(d, 1, m[1]) \o <<"FN+", g2>> \o Tail_(d, m[2] + 1)
             ELSE d

\* The texts the second rewrite of fixup_disasm hands to the demangler.
FixupCalls(d, rawname) ==
    LET d1 == FixupSelf(d, rawname)
    IN  IF OtherMatches(d1) = {} THEN <<>>
        ELSE LET m == Greedy(OtherMatches(d1))
                 g2 == SubSeq(d1, m[1] + 3, m[2])    \* m.group(2), with < and >
             IN  IF g2 # rawname THEN <<g2>> ELSE <<>>

\* ObjDump.fixup_disasm
fixup_disasm(d, rawname) ==
    LET d1 == FixupSelf(d, rawname)
    IN  IF OtherMatches(d1) = {} THEN d1
        ELSE LET m == Greedy(OtherMatches(d1))
                 g2 == SubSeq(d1, m[1] + 3, m[2])
             IN  IF g2 # rawname
                 THEN SubSeq(d1, 1, m[1]) \o demangle(g2)
                 ELSE d1

-----------------------------------------------------------------------------
(* The lines ObjDump.__init__ recognises *)

FILE_FORMAT == "file format "
SECTION_OF == "Disassembly of section "

\* What '$' leaves of a line: the line without its final newline.
Content(line) == IF line # <<>> /\ Last(line) = NL THEN Front(line) ELSE line

\* The end of the longest run of white space that starts at i (i - 1: none).
WsEnd(c, i) ==
    Max({k \in (i - 1)..Len(c) : \A m \in i..k : IsWs(c[m])})

\* The end of the longest run of [0-9a-f ] that starts at i (i - 1: none).
BytesEnd(c, i) ==
    Max({k \in (i - 1)..Len(c) : \A m \in i..k : IsHex(c[m]) \/ c[m] = SP})

\* re.match('^(.+):\s+file format (.+)$', line): the positions of the ':'.
FileFormatMatches(line) ==
    LET c == Content(line)
    IN  {i \in 2..Len(c) :
            /\ c[i] = ":"
            /\ WsEnd(c, i + 1) >= i + 1
            /\ WsEnd(c, i + 1) + 2 <= Len(c)
            /\ c[WsEnd(c, i + 1) + 1] = FILE_FORMAT}

\* re.match('^Disassembly of section (.+):$', line)
IsSectionLine(line) ==
    LET c == Content(line)
    IN  Len(c) >= 3 /\ c[1] = SECTION_OF /\ Last(c) = ":"

\* re.match('^' + hexgrp + ' <(.+)>:$', line)
IsFunctionLine(line) ==
    LET c == Content(line)
    IN  /\ Len(c) >= 6
        /\ IsHex(c[1]) /\ c[2] = SP /\ c[3] = "<"
        /\ c[Len(c) - 1] = ">" /\ Last(c) = ":"

\* The common head of the two instruction patterns,
\* '^' + opt_ws + hexgrp + ':\t' + '([0-9a-f ]+)': where the offset is.
InstrHead(c) == WsEnd(c, 1) + 1

HasInstrHead(c) ==
    LET h == InstrHead(c)
    IN  /\ h + 3 <= Len(c)
        /\ IsHex(c[h]) /\ c[h + 1] = ":" /\ c[h + 2] = TAB
        /\ BytesEnd(c, h + 3) >= h + 3

\* re.match('^' + opt_ws + hexgrp + ':\t' + '([0-9a-f ]+)\t(.+)$', line)
IsInstrLine(line) ==
    LET c == Content(line)
    IN  /\ HasInstrHead(c)
        /\ BytesEnd(c, InstrHead(c) + 3) + 2 <= Len(c)
        /\ c[BytesEnd(c, InstrHead(c) + 3) + 1] = TAB

\* re.match('^' + opt_ws + hexgrp + ':\t' + '([0-9a-f ]+)$', line)
IsDataLine(line) ==
    LET c == Content(line)
    IN  HasInstrHead(c) /\ BytesEnd(c, InstrHead(c) + 3) = Len(c)

\* [from_hex(str_) for str_ in m.group(2).split()]
RECURSIVE hexdump(_)
hexdump(s) ==
    IF s = <<>> THEN <<>>
    ELSE IF IsWs(s[1]) THEN hexdump(Tail(s))
    ELSE <<from_hex(s[1])>> \o hexdump(Tail(s))

\* Which branch of the loop body of ObjDump.__init__ takes the line, the
\* tests being made in the order of the code.
LineKind(o, line) ==
    IF line = <<NL>> THEN "blank"
    ELSE IF FileFormatMatches(line) # {} THEN "fileformat"
    ELSE IF IsSectionLine(line) THEN "section"
    ELSE IF IsFunctionLine(line) THEN "function"
    ELSE IF o._cur_function # None /\ IsInstrLine(line) THEN "instruction"
    ELSE IF o._cur_function # None /\ IsDataLine(line) THEN "data"
    ELSE "unhandled"

-----------------------------------------------------------------------------
(* AsmFile, ObjDump *)

NoError == "NoError"

\* AsmFile.__init__ and the head of ObjDump.__init__
NewObjDump ==
    [objpath |-> None, fileformat |-> None,
     _cur_section |-> None, _cur_function |-> None,
     sections |-> <<>>, functions |-> <<>>, rootns |-> {}]

\* A dict is held as the sequence of its values, in insertion order, beside
\* the sequence of their keys.
Keys(keys) == {keys[i] : i \in 1..Len(keys)}

IndexOf(keys, k) == CHOOSE i \in 1..Len(keys) : keys[i] = k

\* dict[k] = v: an existing key keeps its place.
Put(d, keys, k, v) ==
    IF k \in Keys(keys) THEN [d EXCEPT ![IndexOf(keys, k)] = v] ELSE Append(d, v)

\* The keys of asmfile.functions: the raw names.
RawNamesOf(functions) == [i \in 1..Len(functions) |-> functions[i].rawname]

\* asmfile.functions[rawname]
FunctionAt(functions, rawname) ==
    functions[IndexOf(RawNamesOf(functions), rawname)]

\* The line's groups for the file-format pattern.
on_fileformat(o, line) ==
    LET c == Content(line)
        i == Max(FileFormatMatches(line))
    IN  [o EXCEPT !.objpath = SubSeq(c, 1, i - 1),
                  !.fileformat = Tail_(c, WsEnd(c, i + 1) + 2)]

\* ObjDump._on_section
on_section(o, name) ==
    [o EXCEPT !._cur_section = name,
              !.sections = Put(o.sections, o.sections, name, name)]

\* The Scope tree is held as the set of its nodes, each with its path from
\* the root: a Scope, or a Function (named by its raw name).
ScopeNode(path) == [path |-> path, kind |-> "Scope", rawname |-> None]

FunctionNode(path, rawname) ==
    [path |-> path, kind |-> "Function", rawname |-> rawname]

IsPrefix(p, q) == Len(p) <= Len(q) /\ SubSeq(q, 1, Len(p)) = p

\* The proper prefixes of the path at which the walk of _on_function finds
\* a Function where it needs a Scope.
Blocked(rootns, scopes) ==
    {k \in 1..(Len(scopes) - 1) :
        \E n \in rootns : n.path = SubSeq(scopes, 1, k) /\ n.kind = "Function"}

\* The tree after the walk and the final curscope[scopes[-1]] = function:
\* missing Scopes are created, and what was at the function's path (with
\* all that hung below it) is replaced.
Insert(rootns, scopes, rawname) ==
    LET kept == {n \in rootns : ~IsPrefix(scopes, n.path)}
        made == {ScopeNode(SubSeq(scopes, 1, k)) : k \in 1..(Len(scopes) - 1)}
        have == {n.path : n \in kept}
    IN  kept \cup {n \in made : n.path \notin have}
             \cup {FunctionNode(scopes, rawname)}

\* The finish() call at the head of _on_function.
FinishCurrent(o) ==
    IF o._cur_function # None
    THEN [o EXCEPT !.functions =
             Put(o.functions, RawNamesOf(o.functions), o._cur_function,
                 finish(FunctionAt(o.functions, o._cur_function)))]
    ELSE o

\* ObjDump._on_function: the object after the call, and the exception that
\* ended it, if any.
on_function(o, offset, name) ==
    LET o1 == FinishCurrent(o)
        demangled == demangle(name)
        scopes == split(demangled, "::")
        fun == Function(o._cur_section, offset, name, demangled, Last(scopes))
        blocked == Blocked(o.rootns, scopes)
        o2 == [o1 EXCEPT !._cur_function = name]
    IN  IF blocked = {}
        THEN [od |-> [o2 EXCEPT !.functions = Put(o1.functions, RawNamesOf(o1.functions), fun.rawname, fun),
                                !.rootns = Insert(o.rootns, scopes, name)],
              err |-> NoError]
        ELSE IF Max(blocked) < Len(scopes) - 1
        THEN \* 'scope not in curscope' with a Function as curscope
             [od |-> o2, err |-> "TypeError"]
        ELSE \* 'curscope[scopes[-1]] = ...' with a Function as curscope
             [od |-> [o2 EXCEPT !.functions = Put(o1.functions, RawNamesOf(o1.functions), fun.rawname, fun)],
              err |-> "TypeError"]

\* ObjDump._on_instruction
on_instruction(o, offset, bytes_, text) ==
    LET cur == FunctionAt(o.functions, o._cur_function)
        instr == Instruction(offset, bytes_, fixup_disasm(text, cur.rawname))
    IN  [o EXCEPT !.functions =
            Put(o.functions, RawNamesOf(o.functions), cur.rawname,
                [cur EXCEPT !.instrs = Append(cur.instrs, instr)])]

\* The group of a section line.
SectionName(line) == SubSeq(Content(line), 2, Len(Content(line)) - 1)

\* The groups of a function-header line.
HeaderOffset(line) == from_hex(Content(line)[1])

HeaderName(line) == SubSeq(Content(line), 4, Len(Content(line)) - 2)

\* The groups of an instruction line.
InstrOffset(line) == from_hex(Content(line)[InstrHead(Content(line))])

InstrBytes(line) ==
    LET c == Content(line)
    IN  hexdump(SubSeq(c, InstrHead(c) + 3, BytesEnd(c, InstrHead(c) + 3)))

InstrText(line) ==
    LET c == Content(line)
    IN  Tail_(c, BytesEnd(c, InstrHead(c) + 3) + 2)

\* raise ValueError('Unhandled line: %r' % line)
\* A reader that skips a line it cannot handle.
UnhandledSkipped(o, line) == [od |-> o, err |-> NoError]

Unhandled(o, line) == [od |-> o, err |-> "ValueError"]

\* One iteration of the loop of ObjDump.__init__.
ReadLine(o, line) ==
    LET kind == LineKind(o, line)
    IN  CASE kind = "blank" -> [od |-> o, err |-> NoError]
          [] kind = "fileformat" -> [od |-> on_fileformat(o, line), err |-> NoError]
          [] kind = "section" ->
                [od |-> on_section(o, SectionName(line)), err |-> NoError]
          [] kind = "function" ->
                on_function(o, HeaderOffset(line), HeaderName(line))
          [] kind = "instruction" ->
                [od |-> on_instruction(o, InstrOffset(line), InstrBytes(line),
                                       InstrText(line)),
                 err |-> NoError]
          [] kind = "data" ->
                [od |-> on_instruction(o, InstrOffset(line), InstrBytes(line), <<>>),
                 err |-> NoError]
          [] OTHER -> Unhandled(o, line)

\* ObjDump(f) for a whole file: the object, or the exception.
RECURSIVE ParseFrom(_, _)
ParseFrom(o, lines) ==
    IF lines = <<>> THEN [od |-> o, err |-> NoError]
    ELSE LET r == ReadLine(o, lines[1])
         IN  IF r.err # NoError THEN r ELSE ParseFrom(r.od, Tail(lines))

read_objdump(lines) == ParseFrom(NewObjDump, lines)

-----------------------------------------------------------------------------
(* The other programs' variables, while one program runs *)

ParserIdle == f = <<>> /\ od = NewObjDump /\ err = NoError /\ finished = {}

FinishIdle == fn = None /\ pre = <<>>

FixupIdle == arg = <<>> /\ disasm = <<>> /\ rawfuncname = None /\ dm_in = <<>>

DiffIdle ==
    /\ old = NewObjDump /\ new = NewObjDump /\ just_sizes = FALSE
    /\ peers = None /\ counts = None /\ idx = 0 /\ out = <<>>

parserVars == <<f, od, err, finished>>
finishVars == <<fn, pre>>
fixupVars == <<arg, disasm, rawfuncname, dm_in>>
diffVars == <<old, new, just_sizes, peers, counts, idx, out>>

-----------------------------------------------------------------------------
(* Function.finish on its own *)

NOP == Instruction(1, <<144>>, <<"nop">>)
RET == Instruction(2, <<195>>, <<"ret">>)
MOV == Instruction(4, <<137, 216>>, <<"mov">>)

InstrSeqs(n) == UNION {[1..k -> {NOP, RET, MOV}] : k \in 0..n}

InitFinish ==
    /\ pc = "finish"
    /\ \E s \in InstrSeqs(MaxInstrs) :
          /\ fn = [Function(<<".text">>, 0, <<"main">>, <<"main">>, <<"main">>)
                      EXCEPT !.instrs = s]
          /\ pre = s
    /\ ParserIdle /\ FixupIdle /\ DiffIdle

\* self._cur_function.finish()
Finish ==
    /\ pc = "finish"
    /\ fn' = finish(fn)
    /\ pc' = "finished"
    /\ UNCHANGED <<pre, parserVars, fixupVars, diffVars>>

NextFinish == Finish

SpecFinish == InitFinish /\ [][NextFinish]_vars

-----------------------------------------------------------------------------
(* ObjDump.fixup_disasm on its own *)

Symbols ==
    {<<"main">>, <<"foo">>, <<"_ZN1A3fooEv">>, <<"_Z1fP", "18gimple_statement_d">>}

Operands ==
    {<<h, SP, "<">> \o s \o <<">">> : h \in {"10", "20"}, s \in Symbols}
    \cup {<<h, SP, "<">> \o s \o <<"+", d, ">">> :
             h \in {"10", "20"}, s \in Symbols, d \in {"0x4", "0x8"}}

Texts ==
    {<<"ret">>, <<"nop">>, <<"push", SP, "%rbp">>, <<"call", SP, "*%rax">>}
    \cup {<<m, SP>> \o op : m \in {"jmp", "call"}, op \in Operands}

InitFixup ==
    /\ pc = "fixup"
    /\ arg \in Texts
    /\ disasm = arg
    /\ rawfuncname \in Symbols
    /\ dm_in = <<>>
    /\ ParserIdle /\ FinishIdle /\ DiffIdle

\* disasm = self.fixup_disasm(disasm, self._cur_function.rawname, self._demangler)
Fixup ==
    /\ pc = "fixup"
    /\ disasm' = fixup_disasm(arg, rawfuncname)
    /\ dm_in' = dm_in \o FixupCalls(arg, rawfuncname)
    /\ pc' = "fixed"
    /\ UNCHANGED <<arg, rawfuncname, parserVars, finishVars, diffVars>>

NextFixup == Fixup

SpecFixup == InitFixup /\ [][NextFixup]_vars

-----------------------------------------------------------------------------
(* ObjDump.__init__: one objdump file read line by line *)

L_blank == <<NL>>
L_fileformat == <<"a.o", ":", SP, SP, FILE_FORMAT, "elf64-x86-64", NL>>
L_section == <<SECTION_OF, ".text", ":", NL>>
L_section_hot == <<SECTION_OF, ".text.hot", ":", NL>>
L_main == <<"0", SP, "<", "main", ">", ":", NL>>
L_lambda == <<"10", SP, "<", "_ZZ4mainENKUlvE_clEv", ">", ":", NL>>
L_nop == <<SP, "1", ":", TAB, "90", TAB, "nop", NL>>
L_ret == <<SP, "2", ":", TAB, "c3", TAB, "ret", NL>>
L_jmp == <<SP, "4", ":", TAB, "eb", SP, "00", TAB,
           "jmp", SP, "0", SP, "<", "main", "+", "0x4", ">", NL>>
L_data == <<SP, "20", ":", TAB, "00", SP, "00", NL>>
L_dots == <<TAB, "...", NL>>

ParseLines ==
    {L_blank, L_fileformat, L_section, L_main, L_lambda,
     L_nop, L_ret, L_jmp, L_data, L_dots}

InitParse ==
    /\ pc = "parsing"
    /\ f = <<>>
    /\ od = NewObjDump
    /\ err = NoError
    /\ finished = {}
    /\ FinishIdle /\ FixupIdle /\ DiffIdle

\* if line == '\n': continue
Blank ==
    /\ pc = "parsing"
    /\ Len(f) < MaxLines
    /\ \E line \in ParseLines :
          /\ LineKind(od, line) = "blank"
          /\ f' = Append(f, line)
    /\ UNCHANGED <<pc, od, err, finished, finishVars, fixupVars, diffVars>>

\* self.objpath = m.group(1); self.fileformat = m.group(2)
FileFormat ==
    /\ pc = "parsing"
    /\ Len(f) < MaxLines
    /\ \E line \in ParseLines :
          /\ LineKind(od, line) = "fileformat"
          /\ f' = Append(f, line)
          /\ od' = on_fileformat(od, line)
    /\ UNCHANGED <<pc, err, finished, finishVars, fixupVars, diffVars>>

\* self._on_section(m.group(1))
OnSection ==
    /\ pc = "parsing"
    /\ Len(f) < MaxLines
    /\ \E line \in ParseLines :
          /\ LineKind(od, line) = "section"
          /\ f' = Append(f, line)
          /\ od' = on_section(od, SectionName(line))
    /\ UNCHANGED <<pc, err, finished, finishVars, fixupVars, diffVars>>

\* self._on_function(from_hex(m.group(1)), m.group(2)); a TypeError raised
\* in it ends ObjDump.__init__.
OnFunction ==
    /\ pc = "parsing"
    /\ Len(f) < MaxLines
    /\ \E line \in ParseLines :
          /\ LineKind(od, line) = "function"
          /\ f' = Append(f, line)
          /\ LET r == on_function(od, HeaderOffset(line), HeaderName(line))
             IN  /\ od' = r.od
                 /\ err' = r.err
                 /\ pc' = IF r.err = NoError THEN "parsing" ELSE "error"
          /\ finished' =
                (finished \cup (IF od._cur_function # None
                                THEN {od._cur_function} ELSE {}))
                \ {HeaderName(line)}
    /\ UNCHANGED <<finishVars, fixupVars, diffVars>>

\* self._on_instruction(from_hex(m.group(1)), [...], m.group(3))
OnInstruction ==
    /\ pc = "parsing"
    /\ Len(f) < MaxLines
    /\ \E line \in ParseLines :
          /\ LineKind(od, line) = "instruction"
          /\ f' = Append(f, line)
          /\ od' = on_instruction(od, InstrOffset(line), InstrBytes(line),
                                  InstrText(line))
    /\ UNCHANGED <<pc, err, finished, finishVars, fixupVars, diffVars>>

\* self._on_instruction(from_hex(m.group(1)), [...], '')
OnData ==
    /\ pc = "parsing"
    /\ Len(f) < MaxLines
    /\ \E line \in ParseLines :
          /\ LineKind(od, line) = "data"
          /\ f' = Append(f, line)
          /\ od' = on_instruction(od, InstrOffset(line), InstrBytes(line), <<>>)
    /\ UNCHANGED <<pc, err, finished, finishVars, fixupVars, diffVars>>

\* No branch took the line: the raise at the end of the loop body.
OnUnhandled ==
    /\ pc = "parsing"
    /\ Len(f) < MaxLines
    /\ \E line \in ParseLines :
          /\ LineKind(od, line) = "unhandled"
          /\ f' = Append(f, line)
          /\ LET r == Unhandled(od, line)
             IN  /\ od' = r.od
                 /\ err' = r.err
                 /\ pc' = IF r.err = NoError THEN "parsing" ELSE "error"
    /\ UNCHANGED <<finished, finishVars, fixupVars, diffVars>>

\* The loop ends with the file: ObjDump.__init__ returns.
EndOfInput ==
    /\ pc = "parsing"
    /\ pc' = "done"
    /\ UNCHANGED <<parserVars, finishVars, fixupVars, diffVars>>

NextParse ==
    \/ Blank
    \/ FileFormat
    \/ OnSection
    \/ OnFunction
    \/ OnInstruction
    \/ OnData
    \/ OnUnhandled
    \/ EndOfInput

SpecParse == InitParse /\ [][NextParse]_vars

-----------------------------------------------------------------------------
(* MatchupSet, FunctionPeer, FunctionMatchupSet *)

\* FunctionPeer.__init__: fn_by_leafnames, where a later function of the
\* same leaf name replaces an earlier one.
fn_by_leafnames(asmfile) ==
    [l \in {asmfile.functions[i].leafname : i \in 1..Len(asmfile.functions)} |->
        asmfile.functions[
            Max({i \in 1..Len(asmfile.functions) :
                     asmfile.functions[i].leafname = l})]]

GIMPLE_OLD == "18gimple_statement_d"
GIMPLE_NEW == "21gimple_statement_base"

\* FunctionMatchupSet._lookup: the new function, or None.
lookup(newfile, olditem) ==
    LET rawname == replace(olditem.rawname, GIMPLE_OLD, GIMPLE_NEW)
    IN  IF rawname \in Keys(RawNamesOf(newfile.functions))
        THEN FunctionAt(newfile.functions, rawname)
        ELSE IF olditem.leafname \in DOMAIN fn_by_leafnames(newfile)
        THEN fn_by_leafnames(newfile)[olditem.leafname]
        ELSE None

\* The keys of a dict of entries <<key, value>> keyed by Function: the raw
\* names, by which Function.__hash__ and Function.__eq__ go.
EntryKeys(d) == [i \in 1..Len(d) |-> d[i][1].rawname]

\* A first loop that records a match in old_to_new only.
RECURSIVE MatchOldOneWay(_, _, _, _)
MatchOldOneWay(m, oldfile, newfile, i) ==
    IF i > Len(oldfile.functions) THEN m
    ELSE LET olditem == oldfile.functions[i]
             newitem == lookup(newfile, olditem)
         IN  MatchOldOneWay(
                 IF newitem # None
                 THEN [m EXCEPT
                         !.old_to_new = Put(@, EntryKeys(@), olditem.rawname, <<olditem, newitem>>)]
                 ELSE [m EXCEPT !.gone = Append(@, olditem)],
                 oldfile, newfile, i + 1)

\* The first loop of MatchupSet.__init__, over the old items from the i-th.
RECURSIVE MatchOld(_, _, _, _)
MatchOld(m, oldfile, newfile, i) ==
    IF i > Len(oldfile.functions) THEN m
    ELSE LET olditem == oldfile.functions[i]
             newitem == lookup(newfile, olditem)
         IN  MatchOld(
                 IF newitem # None
                 THEN [m EXCEPT
                         !.old_to_new = Put(@, EntryKeys(@), olditem.rawname, <<olditem, newitem>>),
                         !.new_to_old = Put(@, EntryKeys(@), newitem.rawname, <<newitem, olditem>>)]
                 ELSE [m EXCEPT !.gone = Append(@, olditem)],
                 oldfile, newfile, i + 1)

\* The second loop of MatchupSet.__init__: the new items not in new_to_old.
RECURSIVE Appeared(_, _, _)
Appeared(new_to_old, newfile, i) ==
    IF i > Len(newfile.functions) THEN <<>>
    ELSE (IF newfile.functions[i].rawname \notin Keys(EntryKeys(new_to_old))
          THEN <<newfile.functions[i]>> ELSE <<>>)
         \o Appeared(new_to_old, newfile, i + 1)

\* FunctionMatchupSet(old, new)
FunctionMatchupSet(oldfile, newfile) ==
    LET m == MatchOld([old_to_new |-> <<>>, new_to_old |-> <<>>,
                       gone |-> <<>>, appeared |-> <<>>],
                      oldfile, newfile, 1)
    IN  [m EXCEPT !.appeared = Appeared(m.new_to_old, newfile, 1)]

-----------------------------------------------------------------------------
(* fn_equal, fn_diff, asm_diff *)

\* fn_equal
\* An equality of the whole instructions, by Instruction.__eq__: offsets
\* and raw bytes included.
fn_equal_whole(o, n) ==
    IF Len(o.instrs) # Len(n.instrs) THEN FALSE
    ELSE \A i \in 1..Len(o.instrs) : InstrEq(o.instrs[i], n.instrs[i])

fn_equal(o, n) ==
    IF Len(o.instrs) # Len(n.instrs) THEN FALSE
    ELSE \A i \in 1..Len(o.instrs) : o.instrs[i].disasm = n.instrs[i].disasm

Min(a, b) == IF a <= b THEN a ELSE b

\* Output.writeln: one line, at the indentation of the moment.
Line(indent, text) == [indent |-> indent, text |-> text]

RenamedTo(n) == Line(0, <<"  (renamed to ">> \o n.demangled \o <<")">>)

\* handle_minor_changes of fn_diff
handle_minor_changes(o, n) ==
    (IF o.rawname # n.rawname THEN <<RenamedTo(n)>> ELSE <<>>)
    \o (IF o.section # n.section
        THEN <<Line(0, <<"  (moved from ">> \o o.section \o <<"+">>
                        \o HexStr(o.offset) \o <<" to ">> \o n.section
                        \o <<"+">> \o HexStr(n.offset) \o <<")">>)>>
        ELSE IF o.offset # n.offset
        THEN <<Line(0, <<"  (moved offset within ">> \o o.section
                        \o <<" from ">> \o HexStr(o.offset) \o <<" to ">>
                        \o HexStr(n.offset) \o <<")">>)>>
        ELSE <<>>)

\* The number of hexadecimal digits of n.
RECURSIVE HexDigits(_)
HexDigits(n) == IF n < 16 THEN 1 ELSE 1 + HexDigits(n \div 16)

\* 'FN+%04s' % HexInt(n): the hexadecimal, padded with spaces to four characters.
RelOffset(n) ==
    <<"FN+">> \o [i \in 1..(IF HexDigits(n) < 2 THEN 2 - HexDigits(n) ELSE 0) |-> SP]
    \o HexStr(n)

\* The second loop over zip(old.instrs, new.instrs) of fn_diff, from the i-th.
RECURSIVE InstrLines(_, _, _)
InstrLines(o, n, i) ==
    IF i > Min(Len(o.instrs), Len(n.instrs)) THEN <<>>
    ELSE (IF o.instrs[i].disasm = n.instrs[i].disasm
          THEN <<Line(1, RelOffset(o.instrs[i].offset - o.offset)
                         \o <<": ">> \o o.instrs[i].disasm)>>
          ELSE <<Line(1, RelOffset(o.instrs[i].offset - o.offset)
                         \o <<": Old: ">> \o o.instrs[i].disasm),
                 Line(1, <<"       : New: ">> \o n.instrs[i].disasm)>>)
         \o InstrLines(o, n, i + 1)

\* fn_diff in size-only mode: the lines it writes.
\* A size-only report whose rename note does not depend on the sizes.
fn_diff_sizes_flat(o, n) ==
    (IF o.size # n.size
     THEN <<Line(0, <<"Function ">> \o o.demangled \o <<" changed size from ",
                      ToString(o.size), " to ", ToString(n.size), " bytes">>)>>
     ELSE <<>>)
    \o (IF o.rawname # n.rawname THEN <<RenamedTo(n)>> ELSE <<>>)

fn_diff_sizes(o, n) ==
    IF o.size # n.size
    THEN <<Line(0, <<"Function ">> \o o.demangled \o <<" changed size from ",
                     ToString(o.size), " to ", ToString(n.size), " bytes">>)>>
         \o (IF o.rawname # n.rawname THEN <<RenamedTo(n)>> ELSE <<>>)
    ELSE <<>>

\* fn_diff: the lines it writes.
fn_diff(o, n, sizes) ==
    IF sizes THEN fn_diff_sizes(o, n)
    ELSE <<Line(0, <<"--- a/">> \o o.demangled),
           Line(0, <<"+++ b/">> \o o.demangled)>>
         \o handle_minor_changes(o, n)
         \o (IF \E i \in 1..Min(Len(o.instrs), Len(n.instrs)) :
                    o.instrs[i].disasm # n.instrs[i].disasm
             THEN InstrLines(o, n, 1)
             ELSE <<>>)

\* The counting loops of asm_diff, the last one from the i-th matched pair.
RECURSIVE CountGone(_, _)
CountGone(gone, i) ==
    IF i > Len(gone) THEN 0 ELSE Len(gone[i].instrs) + CountGone(gone, i + 1)

RECURSIVE CountChanged(_, _, _)
CountChanged(c, old_to_new, i) ==
    IF i > Len(old_to_new) THEN c
    ELSE LET oldfn == old_to_new[i][1]
             newfn == old_to_new[i][2]
         IN  CountChanged(
                 IF ~fn_equal(oldfn, newfn)
                 THEN [c EXCEPT
                         !.changed = @ + 1,
                         !.insertions = @ + Len(newfn.instrs) - Len(oldfn.instrs),
                         !.deletions = @ + Len(oldfn.instrs) - Len(newfn.instrs)]
                 ELSE c,
                 old_to_new, i + 1)

Counts(m) ==
    CountChanged([added |-> Len(m.appeared), removed |-> Len(m.gone),
                  changed |-> 0,
                  insertions |-> CountGone(m.appeared, 1),
                  deletions |-> CountGone(m.gone, 1)],
                 m.old_to_new, 1)

-----------------------------------------------------------------------------
(* asm_diff(old, new, out, just_sizes) on two parsed files *)

MOV_A == <<[rel |-> 0, bytes |-> <<"89", SP, "d8">>, text |-> <<"mov", SP, "%ebx,%eax">>],
           [rel |-> 2, bytes |-> <<"90">>, text |-> <<"nop">>]>>
MOV_B == <<[rel |-> 0, bytes |-> <<"8b", SP, "c3">>, text |-> <<"mov", SP, "%ebx,%eax">>],
           [rel |-> 2, bytes |-> <<"90">>, text |-> <<"nop">>]>>
RET_ == <<[rel |-> 0, bytes |-> <<"c3">>, text |-> <<"ret">>]>>

OldNames ==
    {<<"_ZN1A3fooEv">>, <<"_ZN1C3fooEv">>, <<"_Z1fP", GIMPLE_OLD>>}
NewNames ==
    {<<"_ZN1A3fooEv">>, <<"_ZN1B3fooEv">>, <<"_Z1fP", GIMPLE_NEW>>}
OldBodies == {RET_, MOV_A}
NewBodies == {RET_, MOV_B}

\* Where objdump puts the i-th function of a file.
BaseOf(i) == 16 * (i - 1)

HexOf(n) == HexStr(n)[2]

\* The lines of one function: its header, then its instructions.
Block(name, body, base) ==
    <<<<HexOf(base), SP, "<">> \o name \o <<">", ":", NL>>>>
    \o [i \in 1..Len(body) |->
           <<SP, SP, HexOf(base + body[i].rel), ":", TAB>> \o body[i].bytes
           \o <<TAB>> \o body[i].text \o <<NL>>]

RECURSIVE Blocks(_, _, _)
Blocks(names, bodies, i) ==
    IF i > Len(names) THEN <<>>
    ELSE Block(names[i], bodies[i], BaseOf(i)) \o <<L_blank>>
         \o Blocks(names, bodies, i + 1)

\* The objdump files of one section and at most MaxFns functions, of
\* distinct raw names.
Files(section, names, bodies) ==
    {<<L_fileformat, L_blank, section, L_blank>> \o Blocks(ns, bs, 1) :
        <<ns, bs>> \in UNION {
            {ns \in [1..n -> names] : \A i, j \in 1..n : i # j => ns[i] # ns[j]}
            \X [1..n -> bodies] : n \in 0..MaxFns}}

OldModels ==
    {read_objdump(file).od : file \in Files(L_section, OldNames, OldBodies)}
NewModels ==
    {read_objdump(file).od :
        file \in Files(L_section, NewNames, NewBodies)
                 \cup Files(L_section_hot, NewNames, NewBodies)}

InitDiff ==
    /\ pc = "asm_diff"
    /\ old \in OldModels
    /\ new \in NewModels
    /\ just_sizes \in BOOLEAN
    /\ peers = None
    /\ counts = None
    /\ idx = 0
    /\ out = <<>>
    /\ ParserIdle /\ FinishIdle /\ FixupIdle

\* The head of asm_diff: the two paths, then peers = FunctionMatchupSet(old, new).
Matchup ==
    /\ pc = "asm_diff"
    /\ out' = out \o <<Line(0, <<"Old: ">> \o old.objpath),
                       Line(0, <<"New: ">> \o new.objpath)>>
    /\ peers' = FunctionMatchupSet(old, new)
    /\ pc' = "count"
    /\ UNCHANGED <<old, new, just_sizes, counts, idx,
                   parserVars, finishVars, fixupVars>>

\* The counting of asm_diff and its summary in patch header format.
Summarize ==
    /\ pc = "count"
    /\ counts' = Counts(peers)
    /\ out' = out \o
          <<Line(0, <<"---">>),
            Line(0, <<ToString(counts'.added), " functions added, ",
                      ToString(counts'.removed), " functions removed, ",
                      ToString(counts'.changed), " functions changed">>),
            Line(0, <<ToString(counts'.insertions), " insertions(+), ",
                      ToString(counts'.deletions), " deletions(-)">>)>>
    /\ idx' = 0
    /\ pc' = "gone"
    /\ UNCHANGED <<old, new, just_sizes, peers, parserVars, finishVars, fixupVars>>

\* for gone in peers.gone: one iteration.
ReportGone ==
    /\ pc = "gone"
    /\ idx < Len(peers.gone)
    /\ out' = out \o <<Line(0, <<"--- a/">> \o peers.gone[idx + 1].demangled),
                       Line(0, <<"+++ /dev/null">>)>>
    /\ idx' = idx + 1
    /\ UNCHANGED <<pc, old, new, just_sizes, peers, counts,
                   parserVars, finishVars, fixupVars>>

\* The loop over peers.gone ends.
GoneDone ==
    /\ pc = "gone"
    /\ idx = Len(peers.gone)
    /\ idx' = 0
    /\ pc' = "appeared"
    /\ UNCHANGED <<old, new, just_sizes, peers, counts, out,
                   parserVars, finishVars, fixupVars>>

\* for appeared in peers.appeared: one iteration.
ReportAppeared ==
    /\ pc = "appeared"
    /\ idx < Len(peers.appeared)
    /\ out' = out \o <<Line(0, <<"--- /dev/null">>),
                       Line(0, <<"+++ b/">> \o peers.appeared[idx + 1].demangled)>>
    /\ idx' = idx + 1
    /\ UNCHANGED <<pc, old, new, just_sizes, peers, counts,
                   parserVars, finishVars, fixupVars>>

\* The loop over peers.appeared ends.
AppearedDone ==
    /\ pc = "appeared"
    /\ idx = Len(peers.appeared)
    /\ idx' = 0
    /\ pc' = "fn_diff"
    /\ UNCHANGED <<old, new, just_sizes, peers, counts, out,
                   parserVars, finishVars, fixupVars>>

\* for oldfn, newfn in peers.old_to_new.items(): fn_diff(oldfn, newfn, out, just_sizes)
FnDiff ==
    /\ pc = "fn_diff"
    /\ idx < Len(peers.old_to_new)
    /\ out' = out \o fn_diff(peers.old_to_new[idx + 1][1],
                             peers.old_to_new[idx + 1][2], just_sizes)
    /\ idx' = idx + 1
    /\ UNCHANGED <<pc, old, new, just_sizes, peers, counts,
                   parserVars, finishVars, fixupVars>>

\* The loop over the matched pairs ends, and asm_diff returns.
Return ==
    /\ pc = "fn_diff"
    /\ idx = Len(peers.old_to_new)
    /\ pc' = "returned"
    /\ UNCHANGED <<old, new, just_sizes, peers, counts, idx, out,
                   parserVars, finishVars, fixupVars>>

NextDiff ==
    \/ Matchup
    \/ Summarize
    \/ ReportGone
    \/ GoneDone
    \/ ReportAppeared
    \/ AppearedDone
    \/ FnDiff
    \/ Return

SpecDiff == InitDiff /\ [][NextDiff]_vars

-----------------------------------------------------------------------------
(* Properties *)

IsNop(instr) == instr.disasm = <<"nop">>

\* The length of the longest run of nops that ends the sequence.
TrailingNops(s) ==
    Max({k \in 0..Len(s) : \A i \in (Len(s) - k + 1)..Len(s) : IsNop(s[i])})

ByteCount(instrs) == SumSeq([i \in 1..Len(instrs) |-> Len(instrs[i].bytes_)])

HeaderLines == {L_main, L_lambda}
InstrShapedLines == {L_nop, L_ret, L_jmp, L_data}
RecognisedLines ==
    {L_blank, L_fileformat, L_section} \cup HeaderLines \cup InstrShapedLines

\* The line f[i] is one the parser has no branch for: of no recognised shape,
\* or of the shape of an instruction with no function header before it.
Unrecognised(i) ==
    \/ f[i] # L_blank /\ f[i] \notin RecognisedLines
    \/ f[i] \in InstrShapedLines /\ \A j \in 1..(i - 1) : f[j] \notin HeaderLines

\* C2: when ObjDump.__init__ has returned, finish() has been called on every
\* function of the model, the last one of the file included.
C2_EveryFunctionFinalized ==
    pc = "done" =>
        \A i \in 1..Len(od.functions) : od.functions[i].rawname \in finished

\* C3: finish() moves the longest trailing run of nops to padding, in order,
\* and leaves the rest in instrs, which then does not end with a nop.
C3_FinishMovesAllTrailingNops ==
    pc = "finished" =>
        LET k == TrailingNops(pre)
        IN  /\ fn.padding = SubSeq(pre, Len(pre) - k + 1, Len(pre))
            /\ fn.instrs = SubSeq(pre, 1, Len(pre) - k)
            /\ fn.instrs = <<>> \/ ~IsNop(Last(fn.instrs))

\* C4: in a completely parsed model the size of every function is the number
\* of raw bytes of its instrs (padding not counted), wherever the function
\* stands in the file.
C4_SizeIsByteCountOfInstrs ==
    pc = "done" =>
        \A i \in 1..Len(od.functions) :
            od.functions[i].size = ByteCount(od.functions[i].instrs)

\* C5: a line that is not blank and of no recognised shape, or that has the
\* shape of an instruction before any function header, ends the parse with
\* the ValueError at once: it is the last line read, and no model is returned.
C5_UnrecognisedLineAborts ==
    \A i \in 1..Len(f) :
        Unrecognised(i) => i = Len(f) /\ pc = "error" /\ err = "ValueError"

\* C5's case: an instruction-shaped line after a file-format and a section
\* line but before any function header has ended the parse.
C5_Witness ==
    /\ Len(f) >= 3
    /\ Last(f) \in InstrShapedLines
    /\ \A j \in 1..(Len(f) - 1) : f[j] \in {L_fileformat, L_section}
    /\ pc = "error"

\* The operand '<hex> <symbol>' or '<hex> <symbol+0xdelta>' that ends a text
\* of Texts: where its '<' is (0: the text has no such operand).
OperandAt(t) ==
    IF \E i \in 4..Len(t) : t[i] = "<" /\ Last(t) = ">"
    THEN CHOOSE i \in 4..Len(t) : t[i] = "<"
    ELSE 0

HasDelta(t) == Len(t) >= 3 /\ t[Len(t) - 2] = "+"

\* The symbol the operand names.
SymbolOf(t) ==
    SubSeq(t, OperandAt(t) + 1, IF HasDelta(t) THEN Len(t) - 3 ELSE Len(t) - 1)

\* C9: fixup_disasm rewrites '<hex> <rawname+0xdelta>' of the enclosing
\* function to 'FN+0xdelta'; of an operand that names another symbol it drops
\* the offset and demangles the name; every other text, an operand
\* '<hex> <rawname>' naming the enclosing function itself included, is
\* returned as it came and the demangler is not called for it.
C9_OnlyTwoShapesRewritten ==
    pc = "fixed" =>
        LET i == OperandAt(arg)
        IN  IF i # 0 /\ HasDelta(arg) /\ SymbolOf(arg) = rawfuncname
            THEN disasm = SubSeq(arg, 1, i - 3) \o <<"FN+", arg[Len(arg) - 1]>>
            ELSE IF i # 0 /\ SymbolOf(arg) # rawfuncname
            THEN disasm = SubSeq(arg, 1, i - 3) \o <<"<">> \o demangle(SymbolOf(arg))
                              \o SubSeq(arg, i + Len(SymbolOf(arg)) + 1, Len(arg))
            ELSE disasm = arg /\ dm_in = <<>>

\* The function headers read so far have raw names that differ.
DistinctRawNames ==
    \A i, j \in 1..Len(f) :
        (f[i] \in HeaderLines /\ f[j] \in HeaderLines /\ i # j) => f[i] # f[j]

\* The function is found from the root by the components of its demangled
\* name, through Scopes.
Reachable(rootns, fun) ==
    LET path == split(fun.demangled, "::")
    IN  /\ FunctionNode(path, fun.rawname) \in rootns
        /\ \A k \in 1..(Len(path) - 1) : ScopeNode(SubSeq(path, 1, k)) \in rootns

\* C10: after function headers of distinct raw names, no insertion has failed
\* on a path component held by a function, and every function of the
\* function map is reachable from the root scope by its demangled name.
C10_EveryFunctionReachable ==
    DistinctRawNames =>
        /\ err # "TypeError"
        /\ pc # "error" =>
              \A i \in 1..Len(od.functions) : Reachable(od.rootns, od.functions[i])

\* asm_diff has built its FunctionMatchupSet.
Matched == pc \in {"count", "gone", "appeared", "fn_diff", "returned"}

\* asm_diff has counted.
Counted == pc \in {"gone", "appeared", "fn_diff", "returned"}

RawNames(fns) == {fns[i].rawname : i \in 1..Len(fns)}

Domain(m) == {m.old_to_new[i][1].rawname : i \in 1..Len(m.old_to_new)}

Image(m) == {m.old_to_new[i][2].rawname : i \in 1..Len(m.old_to_new)}

\* C1: old_to_new is injective: no two old functions are matched to the same
\* new function.
C1_MatchupInjective ==
    Matched =>
        \A i, j \in 1..Len(peers.old_to_new) :
            i # j => peers.old_to_new[i][2].rawname # peers.old_to_new[j][2].rawname

\* The normalized texts of the instructions of a function, in order.
TextsOf(fun) == [i \in 1..Len(fun.instrs) |-> fun.instrs[i].disasm]

\* C6: fn_equal holds of a matched pair exactly when the two functions have
\* the same sequence of normalized texts, whatever the offsets and the raw
\* bytes, and asm_diff counts as changed exactly the pairs whose texts differ.
C6_EqualIffSameTexts ==
    Counted =>
        /\ \A i \in 1..Len(peers.old_to_new) :
              fn_equal(peers.old_to_new[i][1], peers.old_to_new[i][2])
              <=> TextsOf(peers.old_to_new[i][1]) = TextsOf(peers.old_to_new[i][2])
        /\ counts.changed =
              Cardinality({i \in 1..Len(peers.old_to_new) :
                  TextsOf(peers.old_to_new[i][1]) # TextsOf(peers.old_to_new[i][2])})

\* C6's case: a matched pair whose instructions differ in raw bytes and in
\* offsets but not in text, and that was not counted as changed.
C6_Witness ==
    /\ Counted
    /\ counts.changed = 0
    /\ \E i \in 1..Len(peers.old_to_new) :
          LET o == peers.old_to_new[i][1]
              n == peers.old_to_new[i][2]
          IN  /\ o.instrs # <<>>
              /\ TextsOf(o) = TextsOf(n)
              /\ \E j \in 1..Len(o.instrs) :
                    /\ o.instrs[j].bytes_ # n.instrs[j].bytes_
                    /\ o.instrs[j].offset # n.instrs[j].offset

\* C7: the added functions and the image of old_to_new partition the new
\* model's functions, the removed functions and the domain of old_to_new
\* partition the old model's, and no function is recorded twice.
C7_MatchupPartitions ==
    Matched =>
        /\ RawNames(peers.appeared) \cap Image(peers) = {}
        /\ RawNames(peers.appeared) \cup Image(peers) = RawNames(new.functions)
        /\ RawNames(peers.gone) \cap Domain(peers) = {}
        /\ RawNames(peers.gone) \cup Domain(peers) = RawNames(old.functions)
        /\ Cardinality(RawNames(peers.appeared)) = Len(peers.appeared)
        /\ Cardinality(RawNames(peers.gone)) = Len(peers.gone)
        /\ Cardinality(Domain(peers)) = Len(peers.old_to_new)

\* C7's case: a matchup with a removed, an added and a matched function.
C7_Witness ==
    /\ Matched
    /\ peers.gone # <<>>
    /\ peers.appeared # <<>>
    /\ peers.old_to_new # <<>>

\* The lines asm_diff writes before it calls fn_diff.
HeadLen == 5 + 2 * Len(peers.gone) + 2 * Len(peers.appeared)

SizeLine(o, n) ==
    Line(0, <<"Function ">> \o o.demangled \o <<" changed size from ",
              ToString(o.size), " to ", ToString(n.size), " bytes">>)

\* What the specification has fn_diff write for a pair in size-only mode.
ClaimedSizeLines(o, n) ==
    (IF o.size # n.size THEN <<SizeLine(o, n)>> ELSE <<>>)
    \o (IF o.rawname # n.rawname THEN <<RenamedTo(n)>> ELSE <<>>)

\* The same, with the rename note only under a size line.
AmendedSizeLines(o, n) ==
    IF o.size = n.size THEN <<>>
    ELSE IF o.rawname # n.rawname THEN <<SizeLine(o, n), RenamedTo(n)>>
    ELSE <<SizeLine(o, n)>>

RECURSIVE Concat(_, _, _)
Concat(Lines(_, _), pairs, n) ==
    IF n = 0 THEN <<>>
    ELSE Concat(Lines, pairs, n - 1) \o Lines(pairs[n][1], pairs[n][2])

\* C8 as stated: in size-only mode fn_diff writes for a matched pair a size
\* line if the sizes differ and a rename note if the raw names differ,
\* whatever the sizes, and nothing else.
C8_RenameNoteWheneverRenamed ==
    (just_sizes /\ pc \in {"fn_diff", "returned"}) =>
        Tail_(out, HeadLen + 1) = Concat(ClaimedSizeLines, peers.old_to_new, idx)

\* C8 as amended: in size-only mode fn_diff writes nothing for a pair of
\* equal sizes; for a pair of different sizes it writes the size line, then
\* a rename note if the raw names differ; and nothing else.
C8_RenameNoteOnlyWithSizeLine ==
    (just_sizes /\ pc \in {"fn_diff", "returned"}) =>
        Tail_(out, HeadLen + 1) = Concat(AmendedSizeLines, peers.old_to_new, idx)

\* C8's cases: fn_diff has run in size-only mode on a renamed pair of equal
\* sizes and on a renamed pair of different sizes.
C8_Witness ==
    /\ just_sizes
    /\ pc = "returned"
    /\ \E i, j \in 1..Len(peers.old_to_new) :
          /\ peers.old_to_new[i][1].rawname # peers.old_to_new[i][2].rawname
          /\ peers.old_to_new[i][1].size = peers.old_to_new[i][2].size
          /\ peers.old_to_new[j][1].rawname # peers.old_to_new[j][2].rawname
          /\ peers.old_to_new[j][1].size # peers.old_to_new[j][2].size

====
